---- MODULE Spec2Model ----
(***************************************************************************)
(* Graph construction of the two Galaxy2Galaxy models:                     *)
(*   galaxy2galaxy/models/latent_flow.py    LatentFlow, LatentMAF          *)
(*   galaxy2galaxy/models/autoregressive.py pack_images, Img2imgPixelCnn   *)
(* A tensor is a record [src, shape]: src says which value it carries,     *)
(* shape is its static shape.  body is followed statement by statement     *)
(* (pc), an exception ends it (outcome).                                   *)
(***************************************************************************)
EXTENDS Integers, Sequences, FiniteSets, TLC

\* ---------------------------------------------------------------- bounds
MaxAttrs == 2          \* longest declared attribute list
MaxLayers == 2         \* largest hparams.num_hidden_layers
MaxLatent == 2         \* largest hparams.latent_size
MaxBatch == 2          \* largest batch of the flow model
MaxTrainSteps == 1     \* optimizer updates after the graph is built
MaxPixBatch == 65      \* largest batch of the pixel model
MaxSide == 2           \* largest width, height and depth of an image

\* ------------------------------------------------------ program constants
hidden_size == 512     \* latent_flow(): hparams.hidden_size
pixel_batch_size == 16 \* pixelcnnpp_base(): hparams.batch_size
summary_rows == 8      \* image_summary(..., rows=8, ...)
summary_cols == 8      \* image_summary(..., cols=8)

TRAIN == "train"
EVAL == "eval"
PREDICT == "infer"
ModeKeys == {TRAIN, EVAL, PREDICT}

AttrNames == {"mag_auto", "flux_radius"}
None == [none |-> TRUE]

\* ---------------------------------------------------------------- helpers
Min(a, b) == IF a <= b THEN a ELSE b

RECURSIVE SumSeq(_)
SumSeq(s) == IF s = <<>> THEN 0 ELSE Head(s) + SumSeq(Tail(s))

RECURSIVE Prod(_)
Prod(s) == IF s = <<>> THEN 1 ELSE Head(s) * Prod(Tail(s))

Range(s) == {s[k] : k \in 1..Len(s)}

SeqsUpTo(S, n) == UNION {[1..m -> S] : m \in 1..n}

\* the classes decorated with @registry.register_model
Registry == {"LatentMAF", "Img2imgPixelCnn"}

\* a base class whose normalizing_flow returns instead of raising
overrides_normalizing_flow_always(cls) == TRUE

\* the class that defines normalizing_flow for cls: LatentMAF overrides it
overrides_normalizing_flow(cls) == cls = "LatentMAF"

\* a lookup that substitutes a default for a missing key, like dict.get
getitem_default(d, k) ==
  IF k \in DOMAIN d THEN [ok |-> TRUE, val |-> d[k]]
  ELSE [ok |-> TRUE, val |-> [src |-> "default", shape |-> <<1>>]]

\* features[k] of a python dict: a value, or KeyError
getitem(d, k) ==
  IF k \in DOMAIN d THEN [ok |-> TRUE, val |-> d[k]]
  ELSE [ok |-> FALSE, val |-> None]

\* tf.concat([tf.expand_dims(t[k], axis=1) for k in keys], axis=1)
concat(d, keys) ==
  [cols |-> [j \in 1..Len(keys) |-> getitem(d, keys[j]).val.src],
   shape |-> <<getitem(d, keys[1]).val.shape[1], Len(keys)>>,
   normed |-> FALSE]

\* common_layers.layer_norm(y, name="y_norm")
layer_norm(t) == [t EXCEPT !.normed = TRUE]

\* tf.reduce_mean of a vector, as the exact fraction sum/count
reduce_mean(v) == [num |-> SumSeq(v), den |-> Len(v)]

\* a loss that forgets the negation
loss_of_unnegated(v) == reduce_mean(v)

\* loss = - tf.reduce_mean(loglikelihood)
loss_of(v) == [num |-> 0 - reduce_mean(v).num, den |-> reduce_mean(v).den]

\* a test that forgets to look for the key
use_psf_flag_only(hp, d) == hp.encode_psf

\* if hparams.encode_psf and 'psf' in features
use_psf(hp, d) == hp.encode_psf /\ "psf" \in DOMAIN d

\* a branch taken in training mode instead of prediction mode
is_predict_wrong_mode(m) == m = TRAIN

\* if hparams.mode == tf.estimator.ModeKeys.PREDICT
is_predict(m) == m = PREDICT

\* np.random.permutation(n).astype("int32")
random_permutation(n) == {p \in [1..n -> 0..(n - 1)] : \A a, b \in 1..n : a # b => p[a] # p[b]}

\* 'maf%d' % i  and  'permutation%d' % i
maf_name(i) == "maf" \o ToString(i)
permutation_name(i) == "permutation" \o ToString(i)

\* a variable left trainable
init_once_trainable(x, name) == [name |-> name, init |-> x, updates |-> 0, trainable |-> TRUE]

\* init_once(x, name, trainable=False): tf.get_variable(name, initializer=x, ...)
init_once(x, name) == [name |-> name, init |-> x, updates |-> 0, trainable |-> FALSE]

\* a loop body that appends the permutation before the autoregressive bijector
chain_pair_swapped(i, conditioning, perm) ==
  << [kind |-> "Permute", name |-> permutation_name(i), permutation |-> perm],
     [kind |-> "MaskedAutoregressiveFlow", name |-> maf_name(i),
      hidden_layers |-> <<hidden_size, hidden_size>>,
      conditional_tensor |-> conditioning, activation |-> "belu"] >>

\* one turn of the loop of LatentMAF.normalizing_flow: the two bijectors appended
chain_pair(i, conditioning, perm) ==
  << [kind |-> "MaskedAutoregressiveFlow", name |-> maf_name(i),
      hidden_layers |-> <<hidden_size, hidden_size>>,
      conditional_tensor |-> conditioning, activation |-> "belu"],
     [kind |-> "Permute", name |-> permutation_name(i), permutation |-> perm] >>

\* tfd.MultivariateNormalDiag(loc=np.zeros(latent_size), scale_diag=np.ones(latent_size))
MultivariateNormalDiag(n) ==
  [loc |-> [k \in 1..n |-> 0], scale_diag |-> [k \in 1..n |-> 1]]

\* keys of {k: ... for k in attrs} in insertion order: first occurrences only
RECURSIVE InsertionOrder(_)
InsertionOrder(s) ==
  IF s = <<>> THEN <<>>
  ELSE LET r == InsertionOrder(SubSeq(s, 1, Len(s) - 1))
       IN IF s[Len(s)] \in Range(r) THEN r ELSE Append(r, s[Len(s)])

\* the orders in which inputs.keys() can iterate: insertion order on an
\* interpreter whose dict keeps it, any order of the distinct keys otherwise
dict_keys(attrs, ordered) ==
  IF ordered THEN {InsertionOrder(attrs)}
  ELSE {s \in [1..Cardinality(Range(attrs)) -> Range(attrs)] : Range(s) = Range(attrs)}

\* a column count rounded up instead of down
pack_images_round_up(shape, rows, cols) ==
  LET n == Len(shape)
      width == shape[n - 2]
      height == shape[n - 1]
      depth == shape[n]
      batch == Prod(shape) \div (width * height * depth)
      r == Min(rows, batch)
      c == Min((batch + r - 1) \div r, cols)
      kept == Min(r * c, batch)
  IN [batch |-> batch, rows |-> r, cols |-> c, kept |-> kept,
      reshape_ok |-> kept * width * height * depth = r * c * width * height * depth,
      shape |-> <<1, r * width, c * height, depth>>]

\* pack_images(images, rows, cols) on the static shape of images
pack_images(shape, rows, cols) ==
  LET n == Len(shape)
      width == shape[n - 2]
      height == shape[n - 1]
      depth == shape[n]
      batch == Prod(shape) \div (width * height * depth)
      r == Min(rows, batch)
      c == Min(batch \div r, cols)
      kept == Min(r * c, batch)
  IN [batch |-> batch, rows |-> r, cols |-> c, kept |-> kept,
      reshape_ok |-> kept * width * height * depth = r * c * width * height * depth,
      shape |-> <<1, r * width, c * height, depth>>]

\* image_summary(name, image_logits): None when the tensor is not rank 4
image_summary(name, t) ==
  IF Len(t.shape) # 4 THEN None
  ELSE [name |-> name, src |-> t.src,
        grid |-> pack_images(t.shape, summary_rows, summary_cols)]

\* ------------------------------------------------------------------ state
VARIABLES
  cls,            \* class of the model object
  entry,          \* method the caller invokes: "body" or "normalizing_flow"
  mode,           \* hparams.mode
  hparams,        \* hyperparameters and the problem's attribute list
  features,       \* feature bundle: key -> tensor
  ordered_dict,   \* whether the interpreter's dict iterates in insertion order
  pc,             \* position in the method
  outcome,        \* "running", "returned", "KeyError", "NotImplementedError"
  trace,          \* operations performed so far, in order
  in_module,      \* TRUE while flow_module_spec is being executed
  y,              \* body's conditioning tensor
  module_y,       \* flow_module_spec's conditioning tensor
  encoder_args,   \* what the encoder was called with, None before the call
  chain,          \* bijectors appended so far
  flow,           \* result of normalizing_flow
  tfvars,         \* variables created: sequence of [name, init, updates, trainable]
  samples,        \* first value returned by body
  loglikelihood,  \* flow.log_prob(...) per example
  scalars,        \* tf.summary.scalar emitted: name -> value
  losses,         \* second value returned by body
  flow_module,    \* signature of the hub module built from flow_module_spec
  exported,       \* hub.register_module_for_export: names registered
  heads,          \* the pixel model's loc and scale tensors
  images,         \* tf.summary.image emitted and no-ops logged, in order
  global_step     \* optimizer updates applied

vars == <<cls, entry, mode, hparams, features, ordered_dict, pc, outcome, trace,
          in_module, y, module_y, encoder_args, chain, flow, tfvars, samples,
          loglikelihood, scalars, losses, flow_module, exported, heads, images,
          global_step>>

config == <<cls, entry, mode, hparams, features, ordered_dict>>

Tensor(src, shape) == [src |-> src, shape |-> shape]

\* feature bundles of the flow model: any subset of the keys, batch b
FlowFeatures(b) ==
  {[k \in K |-> Tensor(k, IF k \in AttrNames THEN <<b>> ELSE <<b, 1, 1, 1>>)] :
     K \in SUBSET ({"inputs", "psf"} \cup AttrNames)}

\* feature bundles of the pixel model: inputs is an image batch, targets_raw
\* has the same spatial shape and rank 3, 4 or 5
PixelFeatures ==
  {[k \in {"inputs", "targets_raw"} |->
      IF k = "inputs" THEN Tensor(k, <<b, w, h, d>>)
      ELSE Tensor(k, CASE rk = 3 -> <<b, w, h>>
                       [] rk = 4 -> <<b, w, h, d>>
                       [] OTHER -> <<b, 1, w, h, d>>)] :
     b \in 1..MaxPixBatch, w \in 1..MaxSide, h \in 1..MaxSide, d \in 1..MaxSide,
     rk \in 3..5}

NoHparams == [encode_psf |-> FALSE, num_hidden_layers |-> 0, latent_size |-> 1,
              attributes |-> <<>>]

\* latent sizes tried through body; normalizing_flow called directly tries
\* every size up to MaxLatent
BodyLatentSizes == {1, 2}

\* values flow.log_prob can give for one example
LogProbValues == {-2, 1}

Blank ==
  /\ outcome = "running"
  /\ trace = <<>>
  /\ in_module = FALSE
  /\ module_y = None
  /\ encoder_args = None
  /\ chain = <<>>
  /\ flow = None
  /\ tfvars = <<>>
  /\ samples = None
  /\ loglikelihood = None
  /\ scalars = <<>>
  /\ losses = None
  /\ flow_module = None
  /\ exported = {}
  /\ heads = None
  /\ images = <<>>
  /\ global_step = 0

\* model(features): T2TModel calls body
InitBody ==
  /\ cls \in {"LatentFlow", "LatentMAF"}
  /\ entry = "body"
  /\ mode \in ModeKeys
  /\ hparams \in [encode_psf : BOOLEAN, num_hidden_layers : 0..MaxLayers,
                  latent_size : BodyLatentSizes,
                  attributes : SeqsUpTo(AttrNames, MaxAttrs)]
  /\ features \in UNION {FlowFeatures(b) : b \in 1..MaxBatch}
  /\ ordered_dict \in (IF mode = PREDICT THEN BOOLEAN ELSE {TRUE})
  /\ pc = "start"
  /\ y = None

\* model.normalizing_flow(condition) called by itself
InitDirect ==
  /\ cls \in {"LatentFlow", "LatentMAF"}
  /\ entry = "normalizing_flow"
  /\ mode = TRAIN
  /\ hparams \in [encode_psf : {FALSE}, num_hidden_layers : 0..MaxLayers,
                  latent_size : 1..MaxLatent, attributes : {<<"mag_auto">>}]
  /\ features \in {f \in FlowFeatures(1) : DOMAIN f = {"inputs", "mag_auto"}}
  /\ ordered_dict = TRUE
  /\ pc = "nf_enter"
  /\ y = layer_norm(concat(features, hparams.attributes))

InitPixel ==
  /\ cls = "Img2imgPixelCnn"
  /\ entry = "body"
  /\ mode = TRAIN
  /\ hparams = NoHparams
  /\ features \in PixelFeatures
  /\ ordered_dict = TRUE
  /\ pc = "start"
  /\ y = None

Init == Blank /\ (InitBody \/ InitDirect \/ InitPixel)

IsFlow == cls \in {"LatentFlow", "LatentMAF"}
Running == outcome = "running"

raise(e) ==
  /\ outcome' = e
  /\ pc' = "raised"

\* ------------------------------------------------------- LatentFlow.body
\* x = features['inputs']
body_inputs ==
  /\ Running /\ IsFlow /\ pc = "start"
  /\ IF getitem(features, "inputs").ok
       THEN /\ pc' = "concat"
            /\ trace' = Append(trace, "inputs")
            /\ UNCHANGED outcome
       ELSE raise("KeyError") /\ UNCHANGED trace
  /\ UNCHANGED <<config, in_module, y, module_y, encoder_args, chain, flow, tfvars,
                 samples, loglikelihood, scalars, losses, flow_module, exported,
                 heads, images, global_step>>

\* y = tf.concat([tf.expand_dims(features[k], axis=1) for k in hparamsp.attributes], axis=1)
body_concat ==
  /\ Running /\ IsFlow /\ pc = "concat"
  /\ IF \A j \in 1..Len(hparams.attributes) : getitem(features, hparams.attributes[j]).ok
       THEN /\ y' = concat(features, hparams.attributes)
            /\ pc' = "load_encoder"
            /\ trace' = Append(trace, "concat")
            /\ UNCHANGED outcome
       ELSE raise("KeyError") /\ UNCHANGED <<y, trace>>
  /\ UNCHANGED <<config, in_module, module_y, encoder_args, chain, flow, tfvars,
                 samples, loglikelihood, scalars, losses, flow_module, exported,
                 heads, images, global_step>>

\* encoder = hub.Module(hparams.encoder_module, trainable=False), then the branch
\* on hparams.mode
body_load_encoder ==
  /\ Running /\ IsFlow /\ pc = "load_encoder"
  /\ trace' = Append(trace, "load_encoder")
  /\ pc' = IF is_predict(mode) THEN "fms_inputs" ELSE "encode"
  /\ in_module' = is_predict(mode)
  /\ UNCHANGED <<config, outcome, y, module_y, encoder_args, chain, flow, tfvars,
                 samples, loglikelihood, scalars, losses, flow_module, exported,
                 heads, images, global_step>>

\* flow_module_spec, run by hub.create_module_spec:
\*   inputs = {k: tf.placeholder(...) for k in hparamsp.attributes}
\*   y = tf.concat([tf.expand_dims(inputs[k], axis=1) for k in inputs.keys()], axis=1)
fms_inputs ==
  /\ Running /\ pc = "fms_inputs"
  /\ \E keys \in dict_keys(hparams.attributes, ordered_dict) :
       module_y' = concat([k \in Range(hparams.attributes) |-> features[k]], keys)
  /\ trace' = Append(trace, "module_concat")
  /\ pc' = "fms_layer_norm"
  /\ UNCHANGED <<config, outcome, in_module, y, encoder_args, chain, flow, tfvars,
                 samples, loglikelihood, scalars, losses, flow_module, exported,
                 heads, images, global_step>>

\*   y = common_layers.layer_norm(y, name="y_norm")
fms_layer_norm ==
  /\ Running /\ pc = "fms_layer_norm"
  /\ module_y' = layer_norm(module_y)
  /\ tfvars' = Append(tfvars, [name |-> "y_norm", init |-> <<>>, updates |-> 0,
                               trainable |-> TRUE])
  /\ trace' = Append(trace, "layer_norm")
  /\ pc' = "nf_enter"
  /\ UNCHANGED <<config, outcome, in_module, y, encoder_args, chain, flow,
                 samples, loglikelihood, scalars, losses, flow_module, exported,
                 heads, images, global_step>>

\* if hparams.encode_psf and 'psf' in features:
\*   code = encoder({'input': x, 'psf': features['psf']})
\* else: code = encoder(x)
body_encode ==
  /\ Running /\ pc = "encode"
  /\ IF use_psf(hparams, features)
       THEN IF getitem(features, "psf").ok
              THEN /\ encoder_args' = [input |-> features["inputs"].src,
                                        psf |-> getitem(features, "psf").val.src]
                   /\ pc' = "layer_norm"
                   /\ trace' = Append(trace, "encode")
                   /\ UNCHANGED outcome
              ELSE raise("KeyError") /\ UNCHANGED <<encoder_args, trace>>
       ELSE /\ encoder_args' = [x |-> features["inputs"].src]
            /\ pc' = "layer_norm"
            /\ trace' = Append(trace, "encode")
            /\ UNCHANGED outcome
  /\ UNCHANGED <<config, in_module, y, module_y, chain, flow, tfvars,
                 samples, loglikelihood, scalars, losses, flow_module, exported,
                 heads, images, global_step>>

\* with tf.variable_scope("flow_module"):
\*   y = common_layers.layer_norm(y, name="y_norm")
body_layer_norm ==
  /\ Running /\ pc = "layer_norm"
  /\ y' = layer_norm(y)
  /\ tfvars' = Append(tfvars, [name |-> "y_norm", init |-> <<>>, updates |-> 0,
                               trainable |-> TRUE])
  /\ trace' = Append(trace, "layer_norm")
  /\ pc' = "nf_enter"
  /\ UNCHANGED <<config, outcome, in_module, module_y, encoder_args, chain, flow,
                 samples, loglikelihood, scalars, losses, flow_module, exported,
                 heads, images, global_step>>

\* ------------------------------------------------------ normalizing_flow
conditioning == IF in_module THEN module_y ELSE y

\* LatentFlow.normalizing_flow raises NotImplementedError; LatentMAF's starts
\* with chain = []
nf_enter ==
  /\ Running /\ pc = "nf_enter"
  /\ IF overrides_normalizing_flow(cls)
       THEN /\ chain' = <<>>
            /\ pc' = "nf_loop"
            /\ UNCHANGED outcome
       ELSE raise("NotImplementedError") /\ UNCHANGED chain
  /\ UNCHANGED <<config, trace, in_module, y, module_y, encoder_args, flow, tfvars,
                 samples, loglikelihood, scalars, losses, flow_module, exported,
                 heads, images, global_step>>

\* for i in range(hparams.num_hidden_layers): chain.append(maf); chain.append(permute)
nf_loop ==
  /\ Running /\ pc = "nf_loop"
  /\ Len(chain) \div 2 < hparams.num_hidden_layers
  /\ LET i == Len(chain) \div 2 IN
     \E p \in random_permutation(hparams.latent_size) :
       LET v == init_once(p, permutation_name(i)) IN
         /\ tfvars' = Append(tfvars, v)
         /\ chain' = chain \o chain_pair(i, conditioning, v.name)
  /\ UNCHANGED <<config, pc, outcome, trace, in_module, y, module_y, encoder_args, flow,
                 samples, loglikelihood, scalars, losses, flow_module, exported,
                 heads, images, global_step>>

\* chain = tfb.Chain(chain); flow = tfd.TransformedDistribution(...); return flow
nf_return ==
  /\ Running /\ pc = "nf_loop"
  /\ Len(chain) \div 2 >= hparams.num_hidden_layers
  /\ flow' = [distribution |-> MultivariateNormalDiag(hparams.latent_size),
              bijector |-> chain]
  /\ trace' = Append(trace, "normalizing_flow")
  /\ IF entry = "normalizing_flow"
       THEN outcome' = "returned" /\ pc' = "done"
       ELSE /\ pc' = IF in_module THEN "fms_add_signature" ELSE "sample"
            /\ UNCHANGED outcome
  /\ UNCHANGED <<config, in_module, y, module_y, encoder_args, chain, tfvars,
                 samples, loglikelihood, scalars, losses, flow_module, exported,
                 heads, images, global_step>>

\* ------------------------------------------- body, training and eval mode
\* samples = flow.sample(tf.shape(y)[0])
body_sample ==
  /\ Running /\ pc = "sample"
  /\ samples' = Tensor("flow.sample", <<y.shape[1], hparams.latent_size>>)
  /\ trace' = Append(trace, "sample")
  /\ pc' = "log_prob"
  /\ UNCHANGED <<config, outcome, in_module, y, module_y, encoder_args, chain, flow,
                 tfvars, loglikelihood, scalars, losses, flow_module, exported,
                 heads, images, global_step>>

\* loglikelihood = flow.log_prob(tf.layers.flatten(code)): one value per example
body_log_prob ==
  /\ Running /\ pc = "log_prob"
  /\ loglikelihood' \in [1..getitem(features, "inputs").val.shape[1] -> LogProbValues]
  /\ trace' = Append(trace, "log_prob")
  /\ pc' = "summary"
  /\ UNCHANGED <<config, outcome, in_module, y, module_y, encoder_args, chain, flow,
                 tfvars, samples, scalars, losses, flow_module, exported,
                 heads, images, global_step>>

\* tf.summary.scalar('loglikelihood', tf.reduce_mean(loglikelihood))
body_summary ==
  /\ Running /\ pc = "summary"
  /\ scalars' = Append(scalars, [name |-> "loglikelihood",
                                 value |-> reduce_mean(loglikelihood)])
  /\ trace' = Append(trace, "summary")
  /\ pc' = "loss"
  /\ UNCHANGED <<config, outcome, in_module, y, module_y, encoder_args, chain, flow,
                 tfvars, samples, loglikelihood, losses, flow_module, exported,
                 heads, images, global_step>>

\* loss = - tf.reduce_mean(loglikelihood); return samples, {'training': loss}
body_return ==
  /\ Running /\ pc = "loss"
  /\ losses' = ("training" :> loss_of(loglikelihood))
  /\ trace' = Append(trace, "loss")
  /\ outcome' = "returned"
  /\ pc' = "done"
  /\ UNCHANGED <<config, in_module, y, module_y, encoder_args, chain, flow,
                 tfvars, samples, loglikelihood, scalars, flow_module, exported,
                 heads, images, global_step>>

\* one optimizer update of the loss returned under 'training': it evaluates
\* log_prob and writes the trainable variables only
train_step ==
  /\ outcome = "returned" /\ IsFlow /\ entry = "body" /\ mode = TRAIN
  /\ global_step < MaxTrainSteps
  /\ global_step' = global_step + 1
  /\ tfvars' = [j \in DOMAIN tfvars |->
                  IF tfvars[j].trainable
                    THEN [tfvars[j] EXCEPT !.updates = @ + 1]
                    ELSE tfvars[j]]
  /\ UNCHANGED <<config, pc, outcome, trace, in_module, y, module_y, encoder_args,
                 chain, flow, samples, loglikelihood, scalars, losses, flow_module,
                 exported, heads, images>>

\* ------------------------------------------------- body, prediction mode
\*   hub.add_signature(inputs=inputs, outputs=flow.sample(tf.shape(y)[0]))
fms_add_signature ==
  /\ Running /\ pc = "fms_add_signature"
  /\ flow_module' = [inputs |-> Range(hparams.attributes),
                     outputs |-> Tensor("flow.sample",
                                        <<module_y.shape[1], hparams.latent_size>>)]
  /\ trace' = Append(trace, "add_signature")
  /\ in_module' = FALSE
  /\ pc' = "register"
  /\ UNCHANGED <<config, outcome, y, module_y, encoder_args, chain, flow, tfvars,
                 samples, loglikelihood, scalars, losses, exported, heads, images,
                 global_step>>

\* flow = hub.Module(flow_spec, name='flow_module')
\* hub.register_module_for_export(flow, "code_sampler")
body_register ==
  /\ Running /\ pc = "register"
  /\ exported' = exported \cup {"code_sampler"}
  /\ trace' = Append(trace, "register")
  /\ pc' = "predict_return"
  /\ UNCHANGED <<config, outcome, in_module, y, module_y, encoder_args, chain, flow,
                 tfvars, samples, loglikelihood, scalars, losses, flow_module,
                 heads, images, global_step>>

\* code_sample = flow({k: features[k] for k in hparamsp.attributes})
\* return code_sample, {'loglikelihood': 0}
body_predict_return ==
  /\ Running /\ pc = "predict_return"
  /\ IF \A j \in 1..Len(hparams.attributes) : getitem(features, hparams.attributes[j]).ok
       THEN /\ samples' = [flow_module.outputs EXCEPT !.src = "code_sampler"]
            /\ losses' = ("loglikelihood" :> 0)
            /\ trace' = Append(trace, "call_module")
            /\ outcome' = "returned"
            /\ pc' = "done"
       ELSE raise("KeyError") /\ UNCHANGED <<samples, losses, trace>>
  /\ UNCHANGED <<config, in_module, y, module_y, encoder_args, chain, flow,
                 tfvars, loglikelihood, scalars, flow_module, exported,
                 heads, images, global_step>>

\* -------------------------------------------------- Img2imgPixelCnn.body
IsPixel == cls = "Img2imgPixelCnn"

\* out = model(features["inputs"], ...); out = tf.layers.dense(out, 2)
\* loc, scale = tf.split(out, 2, axis=-1); scale = tf.nn.softplus(scale) + 1e-4
pix_model ==
  /\ Running /\ IsPixel /\ pc = "start"
  /\ LET sh == features["inputs"].shape
         one == [sh EXCEPT ![Len(sh)] = 1]
     IN heads' = [loc |-> Tensor("loc", one), scale |-> Tensor("scale", one)]
  /\ trace' = Append(trace, "model")
  /\ pc' = "summary_inputs"
  /\ UNCHANGED <<config, outcome, in_module, y, module_y, encoder_args, chain, flow,
                 tfvars, samples, loglikelihood, scalars, losses, flow_module,
                 exported, images, global_step>>

\* self.image_summary(name, t): the summary, or a logged no-op; a reshape
\* whose element count does not match raises
summary_step(name, t, next) ==
  LET s == image_summary(name, t) IN
  /\ IF s # None /\ ~s.grid.reshape_ok
       THEN raise("InvalidArgumentError") /\ UNCHANGED <<images, trace>>
       ELSE /\ images' = Append(images, IF s = None
                                          THEN [name |-> name, logged |-> "no-op"]
                                          ELSE s)
            /\ trace' = Append(trace, name)
            /\ pc' = next
            /\ UNCHANGED outcome
  /\ UNCHANGED <<config, in_module, y, module_y, encoder_args, chain, flow,
                 tfvars, samples, loglikelihood, scalars, losses, flow_module,
                 exported, heads, global_step>>

\* self.image_summary("inputs", features["targets_raw"])
pix_summary_inputs ==
  /\ Running /\ IsPixel /\ pc = "summary_inputs"
  /\ summary_step("inputs", features["targets_raw"], "summary_loc")

\* self.image_summary("loc", loc)
pix_summary_loc ==
  /\ Running /\ IsPixel /\ pc = "summary_loc"
  /\ summary_step("loc", heads.loc, "summary_scale")

\* self.image_summary("scale", scale)
pix_summary_scale ==
  /\ Running /\ IsPixel /\ pc = "summary_scale"
  /\ summary_step("scale", heads.scale, "return")

\* return out, {"training": - distribution.log_prob(features["targets_raw"])}
pix_return ==
  /\ Running /\ IsPixel /\ pc = "return"
  /\ samples' = Tensor("out", [features["inputs"].shape EXCEPT ![4] = 2])
  /\ losses' = ("training" :> Tensor("-log_prob(targets_raw)",
                                     <<features["targets_raw"].shape[1]>>))
  /\ trace' = Append(trace, "return")
  /\ outcome' = "returned"
  /\ pc' = "done"
  /\ UNCHANGED <<config, in_module, y, module_y, encoder_args, chain, flow,
                 tfvars, loglikelihood, scalars, flow_module, exported, heads,
                 images, global_step>>

\* ---------------------------------------------------------- specification
Next ==
  \/ body_inputs
  \/ body_concat
  \/ body_load_encoder
  \/ fms_inputs
  \/ fms_layer_norm
  \/ body_encode
  \/ body_layer_norm
  \/ nf_enter
  \/ nf_loop
  \/ nf_return
  \/ body_sample
  \/ body_log_prob
  \/ body_summary
  \/ body_return
  \/ train_step
  \/ fms_add_signature
  \/ body_register
  \/ body_predict_return
  \/ pix_model
  \/ pix_summary_inputs
  \/ pix_summary_loc
  \/ pix_summary_scale
  \/ pix_return

Spec == Init /\ [][Next]_vars

\* ----------------------------------------------------------------- claims
FlowBody == IsFlow /\ entry = "body"
MissingAttr == \E j \in 1..Len(hparams.attributes) : hparams.attributes[j] \notin DOMAIN features
Complete == "inputs" \in DOMAIN features /\ ~MissingAttr
BatchOf(k) == features[k].shape[1]

IsOrderedOp(op) == op \in {"encode", "layer_norm", "normalizing_flow", "sample", "log_prob"}

\* C1: in training or eval mode, body of a registered variant encodes, layer-normalizes,
\* builds the flow, samples one code per example and evaluates log_prob, in this order;
\* the loss under 'training' is the negated batch mean of the log-probabilities and
\* the scalar metric is that mean.
C1_TrainingLoss ==
  (FlowBody /\ cls \in Registry /\ mode # PREDICT /\ outcome = "returned") =>
    /\ SelectSeq(trace, IsOrderedOp)
         = <<"encode", "layer_norm", "normalizing_flow", "sample", "log_prob">>
    /\ y.normed
    /\ \A k \in 1..Len(flow.bijector) :
         flow.bijector[k].kind = "MaskedAutoregressiveFlow"
           => flow.bijector[k].conditional_tensor = y
    /\ samples.shape[1] = BatchOf("inputs")
    /\ Len(loglikelihood) = BatchOf("inputs")
    /\ DOMAIN losses = {"training"}
    /\ losses["training"].den = BatchOf("inputs")
    /\ losses["training"].num = 0 - SumSeq(loglikelihood)
    /\ Len(scalars) = 1
    /\ scalars[1].name = "loglikelihood"
    /\ scalars[1].value.den = BatchOf("inputs")
    /\ scalars[1].value.num = SumSeq(loglikelihood)
    /\ losses["training"].num + scalars[1].value.num = 0

C1_Witness ==
  /\ FlowBody /\ cls = "LatentMAF" /\ mode = EVAL /\ outcome = "returned"
  /\ BatchOf("inputs") = 2
  /\ hparams.num_hidden_layers = 1
  /\ losses["training"].num = 1

\* C2: in prediction mode body never applies the encoder and never evaluates log_prob;
\* when it returns it has registered the sampling module as 'code_sampler', returns
\* the module's samples for the attribute values and reports {'loglikelihood': 0}.
C2_PredictSampling ==
  (FlowBody /\ mode = PREDICT) =>
    /\ encoder_args = None
    /\ "encode" \notin Range(trace)
    /\ loglikelihood = None
    /\ "log_prob" \notin Range(trace)
    /\ scalars = <<>>
    /\ outcome = "returned" =>
         /\ flow_module # None
         /\ flow_module.inputs = Range(hparams.attributes)
         /\ exported = {"code_sampler"}
         /\ samples = Tensor("code_sampler",
                             <<BatchOf(hparams.attributes[1]), hparams.latent_size>>)
         /\ losses = ("loglikelihood" :> 0)

C2_Witness ==
  /\ FlowBody /\ mode = PREDICT /\ outcome = "returned"
  /\ "psf" \in DOMAIN features /\ hparams.encode_psf
  /\ "code_sampler" \in exported

\* C3: normalizing_flow of LatentMAF returns a chain of 2n bijectors, n the configured
\* num_hidden_layers: position 2i is the autoregressive bijector 'maf<i>', position
\* 2i+1 the permutation 'permutation<i>', names pairwise distinct, over a zero-mean
\* unit-variance diagonal Gaussian of dimension latent_size.
GivenConditioning == IF FlowBody /\ mode = PREDICT THEN module_y ELSE y

C3_ChainShape ==
  (flow # None) =>
    LET n == hparams.num_hidden_layers
        b == flow.bijector
    IN /\ cls = "LatentMAF"
       /\ b = chain
       /\ Len(b) = 2 * n
       /\ \A i \in 0..(n - 1) :
            /\ b[2 * i + 1].kind = "MaskedAutoregressiveFlow"
            /\ b[2 * i + 1].name = "maf" \o ToString(i)
            /\ b[2 * i + 1].conditional_tensor = GivenConditioning
            /\ b[2 * i + 2].kind = "Permute"
            /\ b[2 * i + 2].name = "permutation" \o ToString(i)
       /\ \A j, k \in 1..Len(b) : j # k => b[j].name # b[k].name
       /\ DOMAIN flow.distribution.loc = 1..hparams.latent_size
       /\ DOMAIN flow.distribution.scale_diag = 1..hparams.latent_size
       /\ \A k \in 1..hparams.latent_size :
            flow.distribution.loc[k] = 0 /\ flow.distribution.scale_diag[k] = 1

C3_Witness ==
  /\ flow # None /\ entry = "normalizing_flow" /\ outcome = "returned"
  /\ hparams.num_hidden_layers = 2 /\ hparams.latent_size = 2
  /\ Len(flow.bijector) = 4

\* the variables a Permute bijector of the chain reads
PermVars(i) == {k \in 1..Len(tfvars) : tfvars[k].name = "permutation" \o ToString(i)}
PermVector(i) == LET k == CHOOSE k \in PermVars(i) : TRUE
                 IN [init |-> tfvars[k].init, updates |-> tfvars[k].updates]

\* C4 as stated: the permutations at different chain positions are different vectors.
C4_DistinctVectors ==
  (flow # None) =>
    \A i, j \in 0..(hparams.num_hidden_layers - 1) :
      i # j => PermVector(i).init # PermVector(j).init

PermsWellFormed ==
  (flow # None) =>
    \A i \in 0..(hparams.num_hidden_layers - 1) :
      /\ Cardinality(PermVars(i)) = 1
      /\ flow.bijector[2 * i + 2].permutation = "permutation" \o ToString(i)
      /\ Len(PermVector(i).init) = hparams.latent_size
      /\ Range(PermVector(i).init) = 0..(hparams.latent_size - 1)
      /\ PermVector(i).updates = 0

\* C4, amended: every chain position reads its own variable permutation<i>, which
\* holds a bijection of 0..latent_size-1 drawn at construction, and no later step
\* (an optimizer update, which evaluates log_prob) changes any of them; the vectors
\* of two positions may be equal.
C4_FixedPermutations ==
  [][ /\ PermsWellFormed'
      /\ (flow # None) =>
           \A i \in 0..(hparams.num_hidden_layers - 1) : PermVector(i)' = PermVector(i)
    ]_vars

C4_Witness ==
  /\ flow # None /\ FlowBody /\ global_step >= 1
  /\ hparams.num_hidden_layers = 2 /\ hparams.latent_size = 2
  /\ PermVector(0) = PermVector(1)

\* C5: in training mode a feature bundle lacking a declared attribute key makes body
\* fail with KeyError: no value is substituted, and neither samples nor a loss
\* are returned.
C5_MissingAttribute ==
  (FlowBody /\ mode = TRAIN /\ MissingAttr) =>
    /\ y = None
    /\ samples = None
    /\ losses = None
    /\ outcome \in {"running", "KeyError"}
    /\ pc \in {"start", "concat", "raised"}
    /\ pc = "raised" <=> outcome = "KeyError"

C5_Witness ==
  /\ FlowBody /\ mode = TRAIN /\ MissingAttr
  /\ "inputs" \in DOMAIN features
  /\ trace = <<"inputs">>
  /\ outcome = "KeyError"

\* C6: in training or eval mode the encoder is called with the psf beside the image
\* exactly when encode_psf is set and the bundle has the key 'psf', with the image
\* alone otherwise, and a missing 'psf' raises nothing.
C6_PsfToEncoder ==
  (FlowBody /\ mode # PREDICT) =>
    /\ encoder_args # None =>
         encoder_args = IF hparams.encode_psf /\ "psf" \in DOMAIN features
                          THEN [input |-> "inputs", psf |-> "psf"]
                          ELSE [x |-> "inputs"]
    /\ "encode" \in Range(trace) <=> encoder_args # None
    /\ ("load_encoder" \in Range(trace) /\ pc # "encode") => encoder_args # None
    /\ outcome = "KeyError" => ~Complete

C6_Witness ==
  /\ FlowBody /\ mode = TRAIN /\ outcome = "returned"
  /\ hparams.encode_psf /\ "psf" \notin DOMAIN features
  /\ encoder_args = [x |-> "inputs"]

\* C7: on the abstract base LatentFlow, normalizing_flow, and body in every mode with a
\* complete feature bundle, stop with NotImplementedError and return neither samples nor
\* a loss; of the two flow classes only LatentMAF, which overrides normalizing_flow,
\* is registered.
C7_AbstractBase ==
  /\ Registry \cap {"LatentFlow", "LatentMAF"} = {"LatentMAF"}
  /\ cls \in Registry => outcome # "NotImplementedError"
  /\ (cls = "LatentFlow" /\ (entry = "normalizing_flow" \/ Complete)) =>
       /\ flow = None
       /\ samples = None
       /\ losses = None
       /\ outcome \in {"running", "NotImplementedError"}
       /\ outcome = "running" => ENABLED Next
       /\ pc \notin {"sample", "fms_add_signature", "done"}

C7_Witness ==
  /\ cls = "LatentFlow" /\ entry = "body" /\ mode = PREDICT /\ Complete
  /\ outcome = "NotImplementedError"
  /\ trace[Len(trace)] = "layer_norm"

NoOp(name) == [name |-> name, logged |-> "no-op"]
Rank4(t) == Len(t.shape) = 4

\* C8: body of the pixel model emits the visualizations of the conditioning image
\* features['inputs'], of loc and of scale, each only when its tensor is rank 4 and
\* a logged no-op otherwise, and still returns its output and its 'training' loss.
C8_Visualizations ==
  (IsPixel /\ outcome = "returned") =>
    /\ Len(images) = 3
    /\ images[1] = IF Rank4(features["inputs"])
                     THEN image_summary("inputs", features["inputs"]) ELSE NoOp("inputs")
    /\ images[2] = IF Rank4(heads.loc) THEN image_summary("loc", heads.loc) ELSE NoOp("loc")
    /\ images[3] = IF Rank4(heads.scale)
                     THEN image_summary("scale", heads.scale) ELSE NoOp("scale")
    /\ samples # None
    /\ DOMAIN losses = {"training"}

Packed == {k \in 1..Len(images) : images[k] # NoOp(images[k].name)}
SummaryTensor(k) ==
  CASE images[k].name = "inputs" -> features["targets_raw"]
    [] images[k].name = "loc" -> heads.loc
    [] OTHER -> heads.scale

\* C9 as stated: every grid emitted is 8 by 8.
C9_AlwaysEightByEight ==
  IsPixel => \A k \in Packed : images[k].grid.rows = 8 /\ images[k].grid.cols = 8

\* C9, amended: for a batch of B >= 1 images pack_images uses r = min(8, B) rows and
\* c = min(B div r, 8) columns, keeps the first r*c images with 1 <= r*c <= B, so that
\* the reshape always matches, and returns shape [1, r*width, c*height, depth]; the
\* grid is 8 by 8 exactly when B >= 64.
C9_PackImages ==
  IsPixel =>
    /\ outcome \in {"running", "returned"}
    /\ \A k \in Packed :
         LET g == images[k].grid
             sh == SummaryTensor(k).shape
             B == sh[1]
         IN /\ g.batch = B
            /\ g.rows = (IF B < 8 THEN B ELSE 8)
            /\ g.cols = (IF B \div g.rows < 8 THEN B \div g.rows ELSE 8)
            /\ g.kept = g.rows * g.cols
            /\ 1 <= g.rows * g.cols
            /\ g.rows * g.cols <= B
            /\ g.reshape_ok
            /\ g.shape = <<1, g.rows * sh[2], g.cols * sh[3], sh[4]>>
            /\ (g.rows = 8 /\ g.cols = 8) <=> B >= 64

C9_Witness ==
  /\ IsPixel /\ outcome = "returned"
  /\ BatchOf("inputs") = pixel_batch_size
  /\ Len(images) = 3
  /\ 2 \in Packed
  /\ images[2].grid.rows = 8 /\ images[2].grid.cols = 2

\* C10: the conditioning tensor built inside the exported module is the one training
\* builds: one column per declared attribute, in the declared order, layer-normalized
\* before the flow is constructed.
C10_SameConditioning ==
  (FlowBody /\ mode = PREDICT /\ flow_module # None) =>
    /\ module_y = layer_norm(concat(features, hparams.attributes))
    /\ \A k \in 1..Len(flow.bijector) :
         flow.bijector[k].kind = "MaskedAutoregressiveFlow"
           => flow.bijector[k].conditional_tensor = module_y

====
